---- MODULE Spec2Model ----
(***************************************************************************)
(* HourLeaf, backend/flowers: the Flower table and the two views           *)
(* plant_flower and view_flower.                                           *)
(*                                                                         *)
(* The shared state is the Flower table.  Requests are served by           *)
(* concurrent workers that share nothing but the table, so plant_flower is *)
(* split where it touches the table: the cookie lookup (a SELECT) and the  *)
(* creation (an INSERT, followed by purely local response building).       *)
(* view_flower touches the table once and is one step.                     *)
(***************************************************************************)
EXTENDS Integers, FiniteSets, Sequences, Bags, TLC

(* ------------------------------ bounds -------------------------------- *)
\* how many distinct values uuid.uuid4 can return
NumIds == 2
\* how many distinct values secrets.token_hex(32) can return
NumTokens == 2
\* how many plant_flower executions can be between lookup and insert at once
NumWorkers == 2

(* ------------------------ values of the program ----------------------- *)
UUIDs == 1..NumIds

Tokens == {"t" \o ToString(i) : i \in 1..NumTokens}

VARIATION_CHOICES == {"red", "purple", "green"}

\* a representative seed: the least value a PositiveIntegerField admits
Seeds == {0}

COOKIE_KEY == "flower_owner"

COOKIE_MAX_AGE == 60 * 60 * 24 * 365

(* request.COOKIES: a dict from cookie names to values *)
EmptyJar == [k \in {} |-> ""]

Jar(v) == [k \in {COOKIE_KEY} |-> v]

\* what a browser may send: no cookie, an empty one, or any token-shaped value
CookieJars == {EmptyJar} \cup {Jar(v) : v \in {""} \cup Tokens}

\* dict.get: the set holding the value, empty for None
CookieGet(jar, key) == IF key \in DOMAIN jar THEN {jar[key]} ELSE {}

\* Python truthiness of an optional string
Truthy(opt) == \E v \in opt : v # ""

(* ------------------------------- urls --------------------------------- *)
\* str(uuid): the canonical text of an id
UuidStr(id) == ToString(id)

\* reverse("view_flower", flower_id=id), relative to where the app is mounted
ViewRoute(id) == "f/" \o UuidStr(id) \o "/"

\* a path under f/ whose parameter is not UUID-formatted
MalformedPath == "f/not-a-uuid/"

ViewPaths == {ViewRoute(id) : id \in UUIDs} \cup {MalformedPath}

\* path("f/<uuid:flower_id>/"): the set holding the parsed id, empty if no match
ResolveView(path) == {id \in UUIDs : ViewRoute(id) = path}

(* ------------------------------ models -------------------------------- *)
\* the display label of a variation (second member of a VARIATION_CHOICES pair)
VariationLabel(v) ==
    CASE v = "red" -> "Red" [] v = "purple" -> "Purple" [] v = "green" -> "Green"
      [] OTHER -> v

\* a constructor that stores the display label instead of the key
NewFlowerLabel(id, now, variation, seed) ==
    [id |-> id, planted_at |-> now, variation |-> VariationLabel(variation),
     seed |-> seed, owner_token |-> "", created_at |-> now]

\* Flower(planted_at=..., variation=..., seed=...): id from its default,
\* owner_token from the CharField's empty default
NewFlower(id, now, variation, seed) ==
    [id |-> id, planted_at |-> now, variation |-> variation, seed |-> seed,
     owner_token |-> "", created_at |-> now]

\* a save that never generates the token
PreSaveKeep(flower, token) == flower

\* Flower.save before super().save(): generate the owner token once
PreSave(flower, token) ==
    IF flower.owner_token = "" THEN [flower EXCEPT !.owner_token = token]
    ELSE flower

\* a table whose id column is no primary key
ConstraintsNoPk(table, row) ==
    /\ \A r \in table : r.owner_token # row.owner_token
    /\ row.seed >= 0

\* a table whose owner_token column lacks unique=True
ConstraintsNoUnique(table, row) ==
    /\ \A r \in table : r.id # row.id
    /\ row.seed >= 0

\* the table's constraints on an INSERT: primary key, unique owner_token,
\* and the PositiveIntegerField check
ConstraintsHold(table, row) ==
    /\ \A r \in table : r.id # row.id
    /\ \A r \in table : r.owner_token # row.owner_token
    /\ row.seed >= 0

\* a query that lost its filter
FilterAll(table, token) == table

\* Flower.objects.filter(owner_token=...)
FilterByToken(table, token) == {r \in table : r.owner_token = token}

\* QuerySet.first(): the set holding the row of least pk, empty for None
First(rows) ==
    IF rows = {} THEN {}
    ELSE {CHOOSE r \in rows : \A o \in rows : r.id <= o.id}

\* a lookup that ignores the id
GetByIdAny(table, id) == table

\* get_object_or_404(Flower, id=...): the set holding the row, empty for Http404
GetById(table, id) == {r \in table : r.id = id}

\* a save that updates the row of the same pk when there is one
CreateOrUpdate(table, row) ==
    IF \E r \in table : r.id = row.id
    THEN {r \in table : r.id # row.id} \cup {row}
    ELSE table \cup {row}

\* Flower.objects.create -> save(force_insert=True): the table after the
\* INSERT, unchanged when a constraint rejects it (IntegrityError)
Create(table, row) ==
    IF ConstraintsHold(table, row) THEN table \cup {row} ELSE table

(* ------------------------------ responses ----------------------------- *)
NoResponse == [status |-> 0, location |-> "", cookies |-> {}, context |-> {}]

Redirect(id) ==
    [status |-> 302, location |-> ViewRoute(id), cookies |-> {}, context |-> {}]

\* a cookie readable by scripts and sent cross-site
SetCookieLax(resp, value) ==
    [resp EXCEPT !.cookies = {[key |-> COOKIE_KEY, value |-> value,
                               max_age |-> COOKIE_MAX_AGE, httponly |-> FALSE,
                               samesite |-> "Lax"]}]

\* a cookie that carries the flower's public location instead of its secret
SetCookieLocation(resp, value) ==
    [resp EXCEPT !.cookies = {[key |-> COOKIE_KEY, value |-> resp.location,
                               max_age |-> COOKIE_MAX_AGE, httponly |-> TRUE,
                               samesite |-> "Strict"]}]

SetCookie(resp, value) ==
    [resp EXCEPT !.cookies = {[key |-> COOKIE_KEY, value |-> value,
                               max_age |-> COOKIE_MAX_AGE, httponly |-> TRUE,
                               samesite |-> "Strict"]}]

ServerError == [status |-> 500, location |-> "", cookies |-> {}, context |-> {}]

NotFound == [status |-> 404, location |-> "", cookies |-> {}, context |-> {}]

Forbidden == [status |-> 403, location |-> "", cookies |-> {}, context |-> {}]

Render(flower) ==
    [status |-> 200, location |-> "", cookies |-> {}, context |-> {flower}]

(* ------------------------------- state -------------------------------- *)
VARIABLES
    store,      \* the Flower table: a set of rows
    inflight,   \* plant_flower executions past the lookup, before the insert
    step,       \* what the last step read: handler, stage and its input
    response,   \* what the last step answered (NoResponse: nothing yet)
    issued      \* bag of <<cookie value, redirect location>> of every Set-Cookie sent

vars == <<store, inflight, step, response, issued>>

\* timezone.now(): the requests modelled fall within one tick of the clock
Now == 0

\* utils.seeds.random_variation
RandomVariations == VARIATION_CHOICES

\* utils.seeds.random_seed
RandomSeeds == Seeds

Init ==
    /\ store = {}
    /\ inflight = 0
    /\ step = [handler |-> "none", stage |-> "none"]
    /\ response = NoResponse
    /\ issued = EmptyBag

(* plant_flower, lines 13-18: read the cookie and look the owner up *)
PlantLookup(jar) ==
    LET owner_token == CookieGet(jar, COOKIE_KEY)
        existing_flower ==
            IF Truthy(owner_token)
            THEN First(FilterByToken(store, CHOOSE v \in owner_token : TRUE))
            ELSE {}
    IN  /\ inflight < NumWorkers
        /\ step' = [handler |-> "plant_flower", stage |-> "lookup", COOKIES |-> jar]
        /\ IF existing_flower # {}
           THEN /\ response' = Redirect((CHOOSE f \in existing_flower : TRUE).id)
                /\ inflight' = inflight
           ELSE /\ response' = NoResponse
                /\ inflight' = inflight + 1
        /\ UNCHANGED <<store, issued>>

(* plant_flower, lines 21-39: create the row, answer with redirect and cookie; *)
(* an IntegrityError leaves the handler and the framework answers 500          *)
PlantCreate(id, token, variation, seed) ==
    LET flower == PreSave(NewFlower(id, Now, variation, seed), token)
    IN  /\ inflight > 0
        /\ inflight' = inflight - 1
        /\ step' = [handler |-> "plant_flower", stage |-> "create", token_hex |-> token]
        /\ store' = Create(store, flower)
        /\ response' = IF ConstraintsHold(store, flower)
                       THEN SetCookie(Redirect(flower.id), flower.owner_token)
                       ELSE ServerError
        /\ issued' = issued (+) SetToBag({<<c.value, response'.location>> : c \in response'.cookies})

\* a view that only the owner may see
ViewFlowerOwnerOnly(request, flower_id) ==
    LET flower == GetById(store, flower_id)
    IN  IF flower = {} THEN NotFound
        ELSE IF \A f \in flower : f.owner_token \in CookieGet(request.COOKIES, COOKIE_KEY)
             THEN Render(CHOOSE f \in flower : TRUE)
             ELSE Forbidden

(* view_flower, lines 42-51 *)
ViewFlower(request, flower_id) ==
    LET flower == GetById(store, flower_id)
    IN  IF flower = {} THEN NotFound ELSE Render(CHOOSE f \in flower : TRUE)

\* the answer to GET path: the route's converter, then the view
ViewResponse(jar, path) ==
    LET match == ResolveView(path)
    IN  IF match = {} THEN NotFound
        ELSE ViewFlower([COOKIES |-> jar], CHOOSE id \in match : TRUE)

View(jar, path) ==
    /\ step' = [handler |-> "view_flower", stage |-> "view", COOKIES |-> jar, path |-> path]
    /\ response' = ViewResponse(jar, path)
    /\ UNCHANGED <<store, inflight, issued>>

Next ==
    \/ \E jar \in CookieJars : PlantLookup(jar)
    \/ \E id \in UUIDs, token \in Tokens, variation \in RandomVariations, seed \in RandomSeeds :
          PlantCreate(id, token, variation, seed)
    \/ \E jar \in CookieJars, path \in ViewPaths : View(jar, path)

Spec == Init /\ [][Next]_vars

(* ------------------------- auxiliary predicates ------------------------ *)
\* the rows whose owner_token is the value of the jar's flower_owner cookie
Holders(jar, table) ==
    {r \in table : r.owner_token \in CookieGet(jar, COOKIE_KEY)}

LookupStep == step'.handler = "plant_flower" /\ step'.stage = "lookup"

CreateStep == step'.handler = "plant_flower" /\ step'.stage = "create"

ViewStep == step'.handler = "view_flower"

TypeOK ==
    /\ inflight \in 0..NumWorkers
    /\ \A r \in store : r.id \in UUIDs /\ r.owner_token \in Tokens \cup {""}
    /\ response.status \in {0, 200, 302, 403, 404, 500}

(* ------------------------------- claims -------------------------------- *)

\* C1: a plant whose cookie is absent, empty or held by no stored row goes on
\* to create; a creation that succeeds adds exactly one row, whose id and
\* owner_token differ from those of every row already stored, and answers
\* with a redirect to the view route of the new row's id.
C1_FreshPlantCreates ==
    [][ /\ (LookupStep /\ Holders(step'.COOKIES, store) = {}) =>
              /\ inflight' = inflight + 1
              /\ response' = NoResponse
              /\ store' = store
        /\ (CreateStep /\ response'.status # 500) =>
              /\ Cardinality(store') = Cardinality(store) + 1
              /\ \E f \in store' :
                    /\ store' = store \cup {f}
                    /\ \A r \in store : r.id # f.id /\ r.owner_token # f.owner_token
                    /\ response'.status = 302
                    /\ response'.location = ViewRoute(f.id)
      ]_vars

\* a creation succeeded while another row was already stored
C1_Witness ==
    /\ step.stage = "create"
    /\ response.status = 302
    /\ Cardinality(store) >= 2

\* C2: a plant whose cookie is the owner_token of a stored row creates nothing,
\* leaves the row count unchanged and redirects to the view route of the row
\* holding that token, which is the location sent when the cookie was issued,
\* so that every repetition gets the same target.
C2_ResumeIsIdempotent ==
    [][ (LookupStep /\ Holders(step'.COOKIES, store) # {}) =>
              /\ store' = store
              /\ Cardinality(store') = Cardinality(store)
              /\ inflight' = inflight
              /\ issued' = issued
              /\ \A r \in Holders(step'.COOKIES, store) : response' = Redirect(r.id)
              /\ \A e \in BagToSet(issued) :
                    e[1] \in CookieGet(step'.COOKIES, COOKIE_KEY) =>
                        e[2] = response'.location
      ]_vars

\* a plant resumed a flower that is not the one of least id
C2_Witness ==
    /\ step.stage = "lookup"
    /\ response.status = 302
    /\ \E r \in store : ViewRoute(r.id) # response.location

\* C3: every stored row has a non-empty owner_token and no two distinct stored
\* rows have the same owner_token.
C3_TokenNonEmptyUnique ==
    /\ \A r \in store : r.owner_token # ""
    /\ \A r1, r2 \in store : r1 # r2 => r1.owner_token # r2.owner_token

\* two rows are stored
C3_Witness == Cardinality(store) >= 2

\* C4: a view of an id that no stored row has answers not-found; a view of an
\* id that a stored row has renders exactly that row.
C4_ViewFindsExactlyTheRow ==
    [][ ViewStep =>
          LET ids == ResolveView(step'.path)
          IN  /\ (\A r \in store : r.id \notin ids) => response' = NotFound
              /\ \A r \in store : r.id \in ids =>
                    /\ response'.status = 200
                    /\ response'.context = {r}
      ]_vars

\* a view rendered one of two stored rows
C4_Witness ==
    /\ step.stage = "view"
    /\ response.status = 200
    /\ Cardinality(store) >= 2

\* C5: a plant response sets the cookie flower_owner exactly when the request
\* created a row; the cookie's value is the new row's owner_token, its max-age
\* one year, HttpOnly and SameSite=Strict.  A resuming plant and a failed plant
\* set no cookie.
C5_CookieOnlyOnCreation ==
    [][ (LookupStep \/ CreateStep) =>
          /\ (response'.cookies # {}) <=> (store' # store)
          /\ LookupStep => response'.cookies = {}
          /\ response'.status = 500 => response'.cookies = {}
          /\ store' # store =>
                \E f \in store' \ store :
                    response'.cookies =
                        {[key |-> "flower_owner", value |-> f.owner_token,
                          max_age |-> 31536000, httponly |-> TRUE,
                          samesite |-> "Strict"]}
      ]_vars

\* a creation answered with a cookie
C5_Witness ==
    /\ step.stage = "create"
    /\ response.cookies # {}

\* C6: the store only grows.  Every row present before a step is present after
\* it with every field unchanged; a view changes nothing; a plant adds at most
\* one row; no row's id or owner_token is changed.
C6_StoreOnlyGrows ==
    [][ /\ \A r \in store : r \in store'
        /\ ViewStep => store' = store
        /\ (LookupStep \/ CreateStep) =>
              \/ store' = store
              \/ \E f \in store' : f \notin store /\ store' = store \cup {f}
        /\ \A r \in store : \A r2 \in store' :
              (r2.id = r.id \/ r2.owner_token = r.owner_token) => r2 = r
      ]_vars

\* a creation was attempted on a non-empty store
C6_Witness ==
    /\ step.stage = "create"
    /\ store # {}
    /\ response.status = 500

\* C7: the answer to a view depends on the path and the store only: whatever
\* cookie the request had carried, the answer would have been the one given.
C7_ViewIgnoresCookie ==
    [][ ViewStep =>
          \A jar \in CookieJars : ViewResponse(jar, step'.path) = response'
      ]_vars

\* a flower was rendered for a request that does not carry its owner_token
C7_Witness ==
    /\ step.stage = "view"
    /\ response.status = 200
    /\ \A f \in response.context :
          f.owner_token \notin CookieGet(step.COOKIES, COOKIE_KEY)

\* C8: every stored row has a variation in {red, purple, green} and a seed
\* that is a non-negative integer.
C8_VariationAndSeed ==
    \A r \in store :
        /\ r.variation \in {"red", "purple", "green"}
        /\ r.seed \in Nat

\* rows of two different variations are stored
C8_Witness ==
    \E r1, r2 \in store : r1.variation # r2.variation /\ r1.seed >= 0

\* C9: a creation whose generated owner_token is already stored is rejected:
\* the request ends (no retry) in a server error, the store is left as it was,
\* no cookie is set and no redirect is returned.
C9_CollisionFails ==
    [][ (CreateStep /\ \E r \in store : r.owner_token = step'.token_hex) =>
          /\ response' = ServerError
          /\ response'.status = 500
          /\ response'.cookies = {}
          /\ response'.location = ""
          /\ store' = store
          /\ issued' = issued
          /\ inflight' = inflight - 1
      ]_vars

\* a creation drew a stored token and failed
C9_Witness ==
    /\ step.stage = "create"
    /\ \E r \in store : r.owner_token = step.token_hex
    /\ response.status = 500
    /\ Cardinality(store) < NumIds

\* C10: issued cookies and stored rows correspond one to one: every cookie
\* value ever set is the owner_token of exactly one stored row, and every
\* stored row's owner_token was set by exactly one response, whose redirect
\* targets that row's id.
C10_CookiesMatchRows ==
    /\ \A e \in BagToSet(issued) :
          /\ Cardinality({r \in store : r.owner_token = e[1]}) = 1
          /\ \A r \in store : r.owner_token = e[1] => e[2] = ViewRoute(r.id)
    /\ \A r \in store :
          /\ CopiesIn(<<r.owner_token, ViewRoute(r.id)>>, issued) = 1
          /\ \A e \in BagToSet(issued) :
                e[1] = r.owner_token => e = <<r.owner_token, ViewRoute(r.id)>>

\* two cookies were issued and a later plant failed
C10_Witness ==
    /\ Cardinality(BagToSet(issued)) >= 2
    /\ response.status = 500
====
